---- MODULE Spec2Model ----
(***************************************************************************)
(* Authentication and session-security core of dev-event: credential      *)
(* login, registration, refresh-token rotation with reuse detection, the  *)
(* rate limiters in front of them and the token service they share.       *)
(*                                                                         *)
(* Every request is a process in a slot of `req`; its pc names the await  *)
(* it is suspended at.  Shared state is the user collection (`db`), the   *)
(* rate-limit counters (`limiter`) and the wall clock (`now`, seconds).   *)
(* Ghost state: `issued` (tokens a client has received), `lastWriter`     *)
(* (the slot that last wrote a user document), and each request's `log`   *)
(* of the checkpoints it has passed.                                      *)
(***************************************************************************)
EXTENDS Integers, Sequences, FiniteSets, TLC

\* ------------------------------------------------------------------ bounds
MaxReqs == 2
MaxPipelineReqs == 1
MaxTicks == 1
MaxCsrfTokens == 1
MaxCallers == 3
MaxAttempts == 2
MaxCalls == 4
MaxLimiterTicks == 2

\* ------------------------------------------------------- program constants
AccessTtl == 900
RefreshTtl == 604800
LoginIpLimit == 10
LoginIpWindow == 600
LoginEmailLimit == 5
LoginEmailWindow == 900
RegisterIpLimit == 3
RegisterIpWindow == 3600
CsrfIpLimit == 5
CsrfIpWindow == 60
CSRF_TOKEN_EXPIRY == 86400

Slots == 1..MaxReqs

\* Canonical (stored) e-mail addresses; the stored one doubles as the user id.
Emails == {"a@x.com", "b@x.com"}
\* E-mail addresses as a request body may spell them.
RawEmails == {"a@x.com", "A@x.com", "b@x.com"}
Passwords == {"longenough1", "otherpass22"}
\* Values of the x-forwarded-for header; <<>> is an absent header.
XffHeaders == {<<>>, <<"::1">>}
UserAgents == {"", "Mozilla/5.0 (X11; Linux x86_64) Firefox/120.0"}

\* The schema's `lowercase: true` setter, applied on save and on query casting.
Lower(e) == IF e = "A@x.com" THEN "a@x.com" ELSE e

\* bcrypt: the stored value is a salted hash, never the plaintext.
Hash(p) == <<"bcrypt", p>>
NoHash == <<"none", "">>
comparePassword(candidate, stored) == stored = Hash(candidate)
\* UserSchema.pre('save'): the password field as it is written, given the
\* field on the document and isModified('password').  A plaintext p set on
\* the document is <<p>>; hashing prefixes the bcrypt marker.
\* (variant: the hook hashes on every save)
preSaveAlwaysHashes(password, isModified) == <<"bcrypt">> \o password
preSave(password, isModified) ==
    IF isModified THEN <<"bcrypt">> \o password ELSE password

\* ------------------------------------------------------------------ tokens
NoToken == [sub |-> "-", iat |-> 0, exp |-> 0, sig |-> "none"]
GarbageToken == [sub |-> "-", iat |-> 0, exp |-> 0, sig |-> "malformed"]
ForgedToken == [sub |-> "a@x.com", iat |-> 0, exp |-> RefreshTtl, sig |-> "bad"]

\* SignJWT(payload).setIssuedAt().setExpirationTime(ttl).sign(SECRET_KEY):
\* HS256 over header and claims, so the token is a function of (payload, iat, ttl).
signToken(userId, ttl, t) ==
    [sub |-> userId, iat |-> t, exp |-> t + ttl, sig |-> "ok"]

NullPayload == [ok |-> FALSE, userId |-> "-"]
\* (variant: a token is still accepted at its expiration instant)
verifyTokenAtExpiry(tok, t) ==
    IF tok.sig = "ok" /\ t <= tok.exp
    THEN [ok |-> TRUE, userId |-> tok.sub]
    ELSE NullPayload
\* jwtVerify: signature, then exp against the clock; null on any failure.
verifyToken(tok, t) ==
    IF tok.sig = "ok" /\ t < tok.exp
    THEN [ok |-> TRUE, userId |-> tok.sub]
    ELSE NullPayload

\* ---------------------------------------------------------------- sessions
\* user.sessions.findIndex(s => s.refreshToken === tok); 0 stands for -1.
findSessionIndex(sessions, tok) ==
    LET hits == {k \in 1..Len(sessions) : sessions[k].refreshToken = tok}
    IN  IF hits = {} THEN 0 ELSE CHOOSE k \in hits : \A m \in hits : k <= m

\* user.sessions[idx].refreshToken = newRefreshToken
rotateSession(sessions, idx, tok) ==
    [sessions EXCEPT ![idx].refreshToken = tok]

\* user.sessions = []
\* (variant: drops only the sessions holding the presented token)
revokeAllKeepsOthers(sessions, tok) ==
    SelectSeq(sessions, LAMBDA s : s.refreshToken # tok)
revokeAll(sessions, tok) == <<>>

\* getClientIP: first entry of x-forwarded-for, '::1' read as 127.0.0.1.
getClientIP(xff) ==
    LET ip == IF xff = <<>> THEN "127.0.0.1" ELSE xff[1]
    IN  IF ip = "::1" THEN "127.0.0.1" ELSE ip
\* The unversioned login route: headers().get('x-forwarded-for') ?? '127.0.0.1'.
legacyClientIP(xff) == IF xff = <<>> THEN "127.0.0.1" ELSE xff[1]
ClientIPs == {"127.0.0.1", "::1"}

\* getUserAgent: UAParser on the user-agent header, geoip on the address.
getUserAgent(xff, ua) ==
    [ip |-> getClientIP(xff),
     os |-> IF ua = "" THEN "Unknown OS" ELSE "Linux x86_64",
     browser |-> IF ua = "" THEN "Unknown Browser" ELSE "Firefox",
     location |-> "Unknown Location"]

\* user.sessions.push({...sessionInfo, accessToken, refreshToken, type})
\* (variant: the session is recorded with type 'github')
newSessionGithub(info, tok) ==
    [refreshToken |-> tok, ip |-> info.ip, os |-> info.os,
     browser |-> info.browser, location |-> info.location, type |-> "github"]
newSession(info, tok) ==
    [refreshToken |-> tok, ip |-> info.ip, os |-> info.os,
     browser |-> info.browser, location |-> info.location, type |-> "credential"]

\* --------------------------------------------------------------- responses
NoResp ==
    [status |-> 0, type |-> "-", code |-> "-", detail |-> "-", attr |-> "-",
     data |-> <<>>]
\* The envelope's timestamp (new Date().toISOString()) is left out: no handler
\* reads it back.
apiSuccess(code, status, data, detail) ==
    [status |-> status, type |-> "success", code |-> code, detail |-> detail,
     attr |-> "-", data |-> data]
apiError(code, status, detail, attr, type) ==
    [status |-> status, type |-> type, code |-> code, detail |-> detail,
     attr |-> attr, data |-> <<>>]

\* What a handler throws: a Response (validateRequest) or an Error.
ThrownResponse(r) == [isResponse |-> TRUE, response |-> r, message |-> "-"]
ThrownError(msg) == [isResponse |-> FALSE, response |-> NoResp, message |-> msg]

internalServerError(err) ==
    apiError("INTERNAL_SERVER_ERROR", 500,
             IF err.isResponse THEN "Unknown server error" ELSE err.message,
             "null", "server_error")

\* The catch clause of each handler.  Only the unversioned login route has
\* `if (error instanceof Response) return error;`.
catchAll(route, err) ==
    IF route = "legacy" /\ err.isResponse
    THEN err.response
    ELSE internalServerError(err)

validationError(attr, detail) ==
    apiError("BAD_REQUEST", 400, detail, attr, "client_error")
invalidJson ==
    apiError("BAD_REQUEST", 400, "Invalid JSON payload", "null", "client_error")

invalidCredentialsError ==
    apiError("UNAUTHORIZED", 401, "Invalid credentials", "null", "client_error")
\* `if (!user) return invalidCredentialsError` and
\* `if (!isPasswordValid) return invalidCredentialsError`.
\* (variant: a missing user is answered 404)
credentialFailureNamesCause(reason) ==
    IF reason = "no_user"
    THEN apiError("NOT_FOUND", 404, "User not found", "email", "client_error")
    ELSE invalidCredentialsError
credentialFailure(reason) == invalidCredentialsError

VARIABLES now, ticks, db, limiter, req, issued, lastWriter,
          config, dateNow, csrf, calls, conn
\* The process environment, the millisecond clock and CSRF state, the history
\* of limiter calls, and the storage-connection cache: each is the state of
\* one component and moves only in that component's specification.
aux == <<config, dateNow, csrf, calls, conn>>
vars == <<now, ticks, db, limiter, req, issued, lastWriter, aux>>

\* ----------------------------------------------------------- rate limiters
LimiterKeys ==
    ({"loginIp", "registerIp", "csrfIp"} \X ClientIPs)
       \cup ({"loginEmail"} \X RawEmails)
LimitOf(name) ==
    CASE name = "loginIp" -> LoginIpLimit
      [] name = "loginEmail" -> LoginEmailLimit
      [] name = "csrfIp" -> CsrfIpLimit
      [] OTHER -> RegisterIpLimit
WindowOf(name) ==
    CASE name = "loginIp" -> LoginIpWindow
      [] name = "loginEmail" -> LoginEmailWindow
      [] name = "csrfIp" -> CsrfIpWindow
      [] OTHER -> RegisterIpWindow
EmptyWindow == [win |-> 0, cnt |-> 0, prev |-> 0]

\* Ratelimit.slidingWindow(limit, window): the requests of the current window
\* plus the previous window's weighted by the part of it still in view.
slidingWindow(st, limit, window, t) ==
    LET b == t \div window
        cur == IF b = st.win THEN st.cnt ELSE 0
        prv == IF b = st.win THEN st.prev
               ELSE IF b = st.win + 1 THEN st.cnt ELSE 0
        weighted == (prv * (window - (t % window))) \div window
        success == weighted + cur < limit
    IN  [success |-> success,
         state |-> IF success THEN [win |-> b, cnt |-> cur + 1, prev |-> prv]
                   ELSE st]

\* How one limiter.limit() call can end: the store answers, the call throws,
\* or the limiter's own timeout (not configured off by the routes) wins the
\* race and the call resolves { success: true, reason: 'timeout' }.
LimitOutcomes == {"answer", "throw", "timeout"}

\* ------------------------------------------------------------- environment
\* process.env as the deployment sets it; Undefined is an unset variable.
Undefined == "<undefined>"
NodeEnvs == {"production", "development"}
TestingFlags == {Undefined, "false", "true", ""}
DefaultConfig == [nodeEnv |-> "development", rawIsTesting |-> Undefined]

\* envPublic.NEXT_PUBLIC_IS_TESTING: z.string().default('false').
envPublic(raw) == IF raw = Undefined THEN "false" ELSE raw
\* A string in a JavaScript condition: only '' is falsy.
Truthy(str) == str # ""
\* if (IS_TESTING) return false; return NODE_ENV === 'production'.
isProduction(cfg) ==
    IF Truthy(envPublic(cfg.rawIsTesting)) THEN FALSE
    ELSE cfg.nodeEnv = "production"

\* -------------------------------------------------------------- CSRF tokens
\* A token string is the sequence of its dot-separated parts.  Each part is
\* [s, r, n]: the random value, the timestamp, or a signature over both.
EmptyPart == [s |-> "", r |-> "", n |-> 0]
NoCsrfToken == <<>>
EmptyCsrfToken == <<EmptyPart>>
CsrfRandoms == {"r1", "r2"}
\* createHmac('sha256', CSRF_SECRET).update(`${token}.${timestamp}`).digest('hex')
hmac(p1, p2) == [s |-> "hmac", r |-> p1.r, n |-> p2.n]
\* `${token}.${timestamp}.${signature}` with timestamp = Date.now().
generateCsrfToken(rand, t) ==
    LET p1 == [s |-> "rand", r |-> rand, n |-> 0]
        p2 == [s |-> "ts", r |-> "", n |-> t]
    IN  <<p1, p2, hmac(p1, p2)>>

CsrfInvalid == [valid |-> FALSE, expired |-> FALSE]
\* (variant: a token is expired from the end of the window on)
verifyCsrfTokenExpiresAtWindow(tok, t) ==
    IF tok = NoCsrfToken \/ tok = EmptyCsrfToken THEN CsrfInvalid
    ELSE IF Len(tok) # 3 THEN CsrfInvalid
    ELSE IF \E k \in 1..3 : tok[k].s = "" THEN CsrfInvalid
    ELSE IF tok[3] # hmac(tok[1], tok[2]) THEN CsrfInvalid
    ELSE IF t - tok[2].n >= CSRF_TOKEN_EXPIRY * 1000
    THEN [valid |-> TRUE, expired |-> TRUE]
    ELSE [valid |-> TRUE, expired |-> FALSE]
\* verifyCsrfToken: shape, signature, then age = (Date.now() - timestamp) / 1000.
verifyCsrfToken(tok, t) ==
    IF tok = NoCsrfToken \/ tok = EmptyCsrfToken THEN CsrfInvalid
    ELSE IF Len(tok) # 3 THEN CsrfInvalid
    ELSE IF \E k \in 1..3 : tok[k].s = "" THEN CsrfInvalid
    ELSE IF tok[3] # hmac(tok[1], tok[2]) THEN CsrfInvalid
    ELSE IF t - tok[2].n > CSRF_TOKEN_EXPIRY * 1000
    THEN [valid |-> TRUE, expired |-> TRUE]
    ELSE [valid |-> TRUE, expired |-> FALSE]

SafeMethods == {"GET", "HEAD", "OPTIONS", "TRACE"}
Methods == SafeMethods \cup {"POST"}
SKIP_PATHS == {"/api/v1/auth/login", "/api/v1/auth/register"}
\* Paths for which pathname.startsWith('/api/v1') holds.
ApiV1Paths == SKIP_PATHS \cup {"/api/v1/auth/refresh"}
Paths == ApiV1Paths \cup {"/events"}

\* (variant: the cookie's signature is not consulted)
validateCsrfTokenEqualOnly(method, path, cookieToken, headerToken, t) ==
    IF method \in SafeMethods \/ path \in SKIP_PATHS THEN TRUE
    ELSE IF cookieToken \in {NoCsrfToken, EmptyCsrfToken}
            \/ headerToken \in {NoCsrfToken, EmptyCsrfToken} THEN FALSE
    ELSE cookieToken = headerToken
validateCsrfToken(method, path, cookieToken, headerToken, t) ==
    IF method \in SafeMethods \/ path \in SKIP_PATHS THEN TRUE
    ELSE IF cookieToken \in {NoCsrfToken, EmptyCsrfToken}
            \/ headerToken \in {NoCsrfToken, EmptyCsrfToken} THEN FALSE
    ELSE IF cookieToken # headerToken THEN FALSE
    ELSE verifyCsrfToken(cookieToken, t).valid

NoSetCookie == [set |-> FALSE, value |-> NoCsrfToken, secure |-> FALSE, maxAge |-> 0]
NoOp == [op |-> "none", method |-> "-", path |-> "-", cookie |-> NoCsrfToken,
         header |-> NoCsrfToken, valid |-> FALSE, expired |-> FALSE,
         status |-> 0, attr |-> "-", reached |-> FALSE]
NoCsrfState == [issued |-> {}, setCookie |-> NoSetCookie, last |-> NoOp]

\* ------------------------------------------------------ connection cache
\* limit() calls made so far under one policy: key, instant, verdict.
NoCalls == [policy |-> "-", log |-> <<>>]
NoConnCache == [conn |-> 0, promise |-> 0]
\* The two caches: global.mongoose (connectToDatabase, behind withDatabase) and
\* global.mongoConnection (connectDB).
Initializers == {"withDatabase", "connectDB"}
Callers == 1..MaxCallers
IdleCaller == [impl |-> "-", pc |-> "idle", promise |-> 0, result |-> 0]
\* The caller of disconnectDB: its position, and how many connectDB attempts
\* had been started when it last returned.
IdleDisconnect == [pc |-> "idle", mark |-> 0]
NoDbState == [cache |-> [m \in Initializers |-> NoConnCache],
              attempts |-> <<>>,
              callers |-> [c \in Callers |-> IdleCaller],
              disc |-> IdleDisconnect]

\* ------------------------------------------------------------------- state
NoUser ==
    [exists |-> FALSE, password |-> NoHash, sessions |-> <<>>, v |-> 0,
     refreshToken |-> NoToken]
NoDoc == [sessions |-> <<>>, v |-> 0]
NoInfo == [ip |-> "-", os |-> "-", browser |-> "-", location |-> "-"]
NoCookies == [accessToken |-> NoToken, refreshToken |-> NoToken]
IdleReq ==
    [kind |-> "none", route |-> "-", pc |-> "idle", xff |-> <<>>,
     email |-> "-", password |-> "-", cookie |-> NoToken, userId |-> "-",
     doc |-> NoDoc, idx |-> 0, access |-> NoToken, refresh |-> NoToken,
     info |-> NoInfo, honey |-> "", returnToken |-> FALSE, resp |-> NoResp, cookies |-> NoCookies, log |-> <<>>,
     after |-> {}]

\* Traffic before the first modelled request: one limiter key may already be
\* at its limit.
Preloads == {"none", "loginIp", "loginEmail", "registerIp", "csrfIp"}
PreloadKey(p) ==
    IF p = "loginEmail" THEN <<"loginEmail", "a@x.com">> ELSE <<p, "127.0.0.1">>

StoredUser(pw) ==
    [exists |-> TRUE, password |-> Hash(pw), sessions |-> <<>>, v |-> 0,
     refreshToken |-> NoToken]
\* The document of a user who has logged in once, at second 0, through the
\* versioned route, sending neither x-forwarded-for nor user-agent.
LoggedInUser(e, pw) ==
    [exists |-> TRUE, password |-> Hash(pw),
     sessions |-> <<newSession(getUserAgent(<<>>, ""), signToken(e, RefreshTtl, 0))>>,
     v |-> 1, refreshToken |-> NoToken]

\* The state once `registered` have signed up with the password "longenough1",
\* `loggedIn` of them have logged in, and earlier traffic has filled one of
\* the `preloads`.
InitWith(registered, loggedIn, preloads) ==
    /\ now = 0
    /\ ticks = 0
    /\ db = [e \in Emails |->
                IF e \in loggedIn THEN LoggedInUser(e, "longenough1")
                ELSE IF e \in registered THEN StoredUser("longenough1")
                ELSE NoUser]
    /\ \E p \in preloads :
          limiter = [k \in LimiterKeys |->
                        IF p # "none" /\ k = PreloadKey(p)
                        THEN [win |-> 0, cnt |-> LimitOf(k[1]), prev |-> 0]
                        ELSE EmptyWindow]
    /\ req = [i \in Slots |-> IdleReq]
    /\ issued = UNION {{signToken(e, AccessTtl, 0), signToken(e, RefreshTtl, 0)} :
                          e \in loggedIn}
    /\ lastWriter = [e \in Emails |-> 0]
    /\ config = DefaultConfig
    /\ dateNow = 0
    /\ csrf = NoCsrfState
    /\ calls = NoCalls
    /\ conn = NoDbState

\* ----------------------------------------------------------------- helpers
Done(i) == req[i].pc = "done"
Finished == {j \in Slots : Done(j)}
CanStart(i, env) ==
    /\ i \in env.slots
    /\ req[i].pc = "idle"
    /\ \A j \in Slots : j < i => req[j].kind # "none"
    /\ env.sequential => \A j \in Slots : req[j].pc \in {"idle", "done"}

\* The handler returns `resp`; `entry` is the checkpoint that ended it.
\* The handler's locals (the loaded document, the body, the headers) end with it.
Respond(r, resp, entry) ==
    [IdleReq EXCEPT !.kind = r.kind, !.route = r.route, !.pc = "done",
                    !.email = r.email, !.cookie = r.cookie, !.userId = r.userId,
                    !.honey = r.honey, !.returnToken = r.returnToken,
                    !.cookies = r.cookies, !.after = r.after,
                    !.resp = resp, !.log = Append(r.log, entry)]
Advance(r, pc, entry) ==
    [r EXCEPT !.pc = pc, !.log = Append(@, entry)]

Tick(env) ==
    /\ ticks < MaxTicks
    /\ \E d \in env.clockSteps : now' = now + d
    /\ ticks' = ticks + 1
    /\ UNCHANGED <<db, limiter, req, issued, lastWriter>>
    /\ UNCHANGED aux

\* limiter.limit(key): the verdict and the counters it leaves.
limit(name, key, outcome, t) ==
    LET r == slidingWindow(limiter[<<name, key>>], LimitOf(name), WindowOf(name), t)
    IN  [threw |-> outcome = "throw",
         success |-> IF outcome = "answer" THEN r.success ELSE outcome = "timeout",
         limiter |-> IF outcome = "answer"
                     THEN [limiter EXCEPT ![<<name, key>>] = r.state]
                     ELSE limiter]

tooManyRequests(detail) ==
    apiError("TOO_MANY_REQUESTS", 429, detail, "null", "client_error")

\* The checkpoint a login request reaches after the per-IP verdict.
\* (variant: the verdict is not read)
afterIpLimitIgnoresDenial(success) == "l_validate"
afterIpLimit(success) == IF success THEN "l_validate" ELSE "done"

\* ------------------------------------------------------------------- login
StartLogin(i, env) ==
    /\ CanStart(i, env)
    /\ \E route \in env.routes :
          req' = [req EXCEPT ![i] =
                     [IdleReq EXCEPT !.kind = "login", !.route = route,
                                     !.pc = "l_ip", !.after = Finished]]
    /\ UNCHANGED <<now, ticks, db, limiter, issued, lastWriter>>
    /\ UNCHANGED aux

LoginIpCheck(i, env) ==
    /\ req[i].pc = "l_ip"
    /\ \E xff \in env.xffs, o \in env.limitOutcomes :
          LET r == req[i]
              ip == IF r.route = "v1" THEN getClientIP(xff) ELSE legacyClientIP(xff)
              l == limit("loginIp", ip, o, now)
              r1 == [r EXCEPT !.xff = xff]
          IN  /\ limiter' = l.limiter
              /\ req' = [req EXCEPT ![i] =
                    IF l.threw
                    THEN Respond(r1, catchAll(r.route, ThrownError("limiter")),
                                 "ip_threw")
                    ELSE IF afterIpLimit(l.success) = "done"
                    THEN Respond(r1,
                           tooManyRequests("Too many login attempts from this IP"),
                           "ip_denied")
                    ELSE Advance(r1, afterIpLimit(l.success),
                                 IF ~l.success THEN "ip_denied"
                                 ELSE IF o = "timeout" THEN "ip_timeout" ELSE "ip_ok")]
    /\ UNCHANGED <<now, ticks, db, issued, lastWriter>>
    /\ UNCHANGED aux

BodyShapes == {"malformed", "invalid", "valid"}

LoginValidate(i, env) ==
    /\ req[i].pc = "l_validate"
    /\ \E shape \in env.bodyShapes, email \in env.emails :
          LET r == req[i]
          IN  req' = [req EXCEPT ![i] =
                CASE shape = "malformed" ->
                       Respond(r, catchAll(r.route, ThrownResponse(invalidJson)),
                               "body_malformed")
                  [] shape = "invalid" ->
                       Respond(r, catchAll(r.route,
                                 ThrownResponse(validationError("email",
                                                  "Invalid email address"))),
                               "body_invalid")
                  [] OTHER ->
                       Advance([r EXCEPT !.email = email], "l_email", "valid")]
    /\ UNCHANGED <<now, ticks, db, limiter, issued, lastWriter>>
    /\ UNCHANGED aux

LoginEmailCheck(i, env) ==
    /\ req[i].pc = "l_email"
    /\ \E o \in env.limitOutcomes :
          LET r == req[i]
              l == limit("loginEmail", r.email, o, now)
          IN  /\ limiter' = l.limiter
              /\ req' = [req EXCEPT ![i] =
                    IF l.threw
                    THEN Respond(r, catchAll(r.route, ThrownError("limiter")),
                                 "email_threw")
                    ELSE IF ~l.success
                    THEN Respond(r,
                           tooManyRequests("Too many login attempts for this email"),
                           "email_denied")
                    ELSE Advance(r, "l_find",
                                 IF o = "timeout" THEN "email_timeout" ELSE "email_ok")]
    /\ UNCHANGED <<now, ticks, db, issued, lastWriter>>
    /\ UNCHANGED aux

\* How a storage call can end.
DbOutcomes == {"ok", "connect_fail", "query_fail"}

\* withDatabase, User.findOne({email}).select('+password'), comparePassword.
LoginFind(i, env) ==
    /\ req[i].pc = "l_find"
    /\ \E o \in env.dbOutcomes, pw \in env.passwords :
          LET r == [req[i] EXCEPT !.password = pw]
              u == Lower(r.email)
          IN  req' = [req EXCEPT ![i] =
                IF o # "ok"
                THEN Respond(r, catchAll(r.route, ThrownError("storage")), "db_threw")
                ELSE IF ~db[u].exists
                THEN Respond(r, credentialFailure("no_user"), "no_user")
                ELSE IF ~comparePassword(pw, db[u].password)
                THEN Respond(r, credentialFailure("bad_password"), "bad_password")
                ELSE Advance([r EXCEPT !.userId = u,
                                       !.doc = [sessions |-> db[u].sessions,
                                                v |-> db[u].v]],
                             "l_sign", "credentials_ok")]
    /\ UNCHANGED <<now, ticks, db, limiter, issued, lastWriter>>
    /\ UNCHANGED aux

LoginSign(i, env) ==
    /\ req[i].pc = "l_sign"
    /\ \E ua \in env.userAgents :
          LET r == req[i]
          IN  req' = [req EXCEPT ![i] =
                Advance([r EXCEPT !.access = signToken(r.userId, AccessTtl, now),
                                  !.refresh = signToken(r.userId, RefreshTtl, now),
                                  !.info = IF r.route = "v1"
                                           THEN getUserAgent(r.xff, ua) ELSE NoInfo],
                        "l_save", "signed")]
    /\ UNCHANGED <<now, ticks, db, limiter, issued, lastWriter>>
    /\ UNCHANGED aux

\* user.save() after sessions.push (a $push, with $inc of the version key), or
\* after `user.refreshToken = refreshToken` on the unversioned route; then the
\* cookies and the 200.
loginResponseData(route, returnToken, access, refresh) ==
    IF route = "legacy" /\ returnToken THEN <<access, refresh>> ELSE <<>>

\* The stored session list after save() of a document whose only change is a
\* sessions.push(s): mongoose sends $push, applied to the stored array.
\* (variant: the array as loaded is written back whole)
savePushWholeArray(stored, loaded, s) == Append(loaded, s)
savePush(stored, loaded, s) == Append(stored, s)

\* cookieStore.set('accessToken', ...) and set('refreshToken', ...) come after
\* `await user.save()`, so a save that throws leaves the response without them.
\* (variant: the cookies are set before the save)
setCookiesBeforeSave(saved, access, refresh) ==
    [accessToken |-> access, refreshToken |-> refresh]
setCookies(saved, access, refresh) ==
    IF saved THEN [accessToken |-> access, refreshToken |-> refresh] ELSE NoCookies

LoginSave(i, env) ==
    /\ req[i].pc = "l_save"
    /\ \E o \in env.saveOutcomes, rt \in env.returnTokens :
          LET r == [req[i] EXCEPT !.returnToken = rt]
              u == r.userId
          IN  IF o # "ok"
              THEN /\ req' = [req EXCEPT ![i] =
                        Respond([r EXCEPT !.cookies = setCookies(FALSE, r.access, r.refresh)],
                                catchAll(r.route, ThrownError("storage")),
                                "save_threw")]
                   /\ UNCHANGED <<db, issued, lastWriter>>
              ELSE /\ db' = [db EXCEPT ![u] =
                        IF r.route = "v1"
                        THEN [@ EXCEPT !.sessions = savePush(@, r.doc.sessions,
                                                             newSession(r.info, r.refresh)),
                                       !.v = @ + 1,
                                       !.password = preSave(@, FALSE)]
                        ELSE [@ EXCEPT !.refreshToken = r.refresh,
                                       !.password = preSave(@, FALSE)]]
                   /\ lastWriter' = [lastWriter EXCEPT ![u] = i]
                   /\ issued' = issued \cup {r.access, r.refresh}
                   /\ req' = [req EXCEPT ![i] =
                        Respond([r EXCEPT !.cookies = setCookies(TRUE, r.access, r.refresh)],
                                apiSuccess("OK", 200,
                                           loginResponseData(r.route, rt, r.access, r.refresh),
                                           "Login successful"),
                                "saved")]
    /\ UNCHANGED <<now, ticks, limiter>>
    /\ UNCHANGED aux

\* ----------------------------------------------------------------- refresh
unauthorized(detail, attr) ==
    apiError("UNAUTHORIZED", 401, detail, attr, "client_error")
securityAlert ==
    apiError("FORBIDDEN", 403,
             "Security Alert: reused refresh token detected. All sessions have been revoked.",
             "null", "client_error")

\* The refreshToken cookie a client can send: none, junk, a token with a bad
\* signature, or any token some response has handed out.
PresentableCookies(env) == env.cookies \cup issued

\* cookies().get('refreshToken'), then verifyToken.
StartRefresh(i, env) ==
    /\ CanStart(i, env)
    /\ \E c \in PresentableCookies(env) :
          LET r == [IdleReq EXCEPT !.kind = "refresh", !.route = "v1",
                                   !.cookie = c, !.after = Finished]
              payload == verifyToken(c, now)
          IN  req' = [req EXCEPT ![i] =
                IF c = NoToken
                THEN Respond(r, unauthorized("Refresh token missing", "refreshToken"),
                             "cookie_missing")
                ELSE IF ~payload.ok
                THEN Respond(r, unauthorized("Invalid or expired refresh token",
                                             "refreshToken"),
                             "token_invalid")
                ELSE Advance([r EXCEPT !.userId = payload.userId], "r_find", "verified")]
    /\ UNCHANGED <<now, ticks, db, limiter, issued, lastWriter>>
    /\ UNCHANGED aux

\* withDatabase, User.findById, sessions.findIndex.
RefreshFind(i, env) ==
    /\ req[i].pc = "r_find"
    /\ \E o \in env.dbOutcomes :
          LET r == req[i]
              u == r.userId
              idx == findSessionIndex(db[u].sessions, r.cookie)
              loaded == [r EXCEPT !.doc = [sessions |-> db[u].sessions, v |-> db[u].v],
                                  !.idx = idx]
          IN  req' = [req EXCEPT ![i] =
                IF o # "ok"
                THEN Respond(r, internalServerError(ThrownError("storage")), "db_threw")
                ELSE IF ~db[u].exists
                THEN Respond(r, unauthorized("User not found", "null"), "no_user")
                ELSE IF idx = 0
                THEN Advance(loaded, "r_revoke", "reuse_detected")
                ELSE Advance(loaded, "r_sign", "session_matched")]
    /\ UNCHANGED <<now, ticks, db, limiter, issued, lastWriter>>
    /\ UNCHANGED aux

\* user.sessions = []; await user.save().  save() sends nothing when the
\* document is unmodified; a replaced array is written under the version key
\* the document was loaded with, and a stale one raises VersionError.
RefreshRevoke(i, env) ==
    /\ req[i].pc = "r_revoke"
    /\ \E o \in env.saveOutcomes :
          LET r == req[i]
              u == r.userId
              cleared == revokeAll(r.doc.sessions, r.cookie)
          IN  IF cleared = r.doc.sessions
              THEN /\ req' = [req EXCEPT ![i] = Advance(r, "r_revoked", "revoked")]
                   /\ UNCHANGED <<db, lastWriter>>
              ELSE IF o # "ok" \/ db[u].v # r.doc.v
              THEN /\ req' = [req EXCEPT ![i] =
                        Respond(r, internalServerError(ThrownError("storage")),
                                IF o # "ok" THEN "save_threw" ELSE "version_error")]
                   /\ UNCHANGED <<db, lastWriter>>
              ELSE /\ db' = [db EXCEPT ![u].sessions = cleared, ![u].v = @ + 1]
                   /\ lastWriter' = [lastWriter EXCEPT ![u] = i]
                   /\ req' = [req EXCEPT ![i] = Advance(r, "r_revoked", "revoked")]
    /\ UNCHANGED <<now, ticks, limiter, issued>>
    /\ UNCHANGED aux

RefreshAlert(i, env) ==
    /\ req[i].pc = "r_revoked"
    /\ req' = [req EXCEPT ![i] = Respond(req[i], securityAlert, "alert")]
    /\ UNCHANGED <<now, ticks, db, limiter, issued, lastWriter>>
    /\ UNCHANGED aux

RefreshSign(i, env) ==
    /\ req[i].pc = "r_sign"
    /\ LET r == req[i]
       IN  req' = [req EXCEPT ![i] =
             Advance([r EXCEPT !.access = signToken(r.userId, AccessTtl, now),
                               !.refresh = signToken(r.userId, RefreshTtl, now)],
                     "r_rotate", "signed")]
    /\ UNCHANGED <<now, ticks, db, limiter, issued, lastWriter>>
    /\ UNCHANGED aux

\* user.sessions[idx].refreshToken = newRefreshToken; await user.save(): a $set
\* of that one path, conditioned on the version key the document was loaded
\* with; then the cookies and the 200.
RefreshRotate(i, env) ==
    /\ req[i].pc = "r_rotate"
    /\ \E o \in env.saveOutcomes :
          LET r == req[i]
              u == r.userId
              modified == rotateSession(r.doc.sessions, r.idx, r.refresh) # r.doc.sessions
              ok200 == Respond([r EXCEPT !.cookies = setCookies(TRUE, r.access, r.refresh)],
                               apiSuccess("OK", 200, <<>>,
                                          "Token refreshed successfully"),
                               "rotated")
          IN  IF modified /\ (o # "ok" \/ db[u].v # r.doc.v)
              THEN /\ req' = [req EXCEPT ![i] =
                        Respond([r EXCEPT !.cookies = setCookies(FALSE, r.access, r.refresh)],
                                internalServerError(ThrownError("storage")),
                                IF o # "ok" THEN "save_threw" ELSE "version_error")]
                   /\ UNCHANGED <<db, issued, lastWriter>>
              ELSE /\ db' = IF modified
                            THEN [db EXCEPT ![u].sessions =
                                     rotateSession(@, r.idx, r.refresh)]
                            ELSE db
                   /\ lastWriter' = IF modified
                                    THEN [lastWriter EXCEPT ![u] = i] ELSE lastWriter
                   /\ issued' = issued \cup {r.access, r.refresh}
                   /\ req' = [req EXCEPT ![i] = ok200]
    /\ UNCHANGED <<now, ticks, limiter>>
    /\ UNCHANGED aux

\* ---------------------------------------------------------------- register
\* An exception no handler caught: the framework's bare 500.
uncaughtException ==
    [status |-> 500, type |-> "uncaught", code |-> "-", detail |-> "-", attr |-> "-",
     data |-> <<>>]

\* withDatabase(...) wraps the handler's try block.
StartRegister(i, env) ==
    /\ CanStart(i, env)
    /\ \E o \in env.dbOutcomes \ {"query_fail"} :
          LET r == [IdleReq EXCEPT !.kind = "register", !.route = "v1",
                                   !.after = Finished]
          IN  req' = [req EXCEPT ![i] =
                IF o = "ok" THEN Advance(r, "g_limit", "connected")
                ELSE Respond(r, uncaughtException, "connect_threw")]
    /\ UNCHANGED <<now, ticks, db, limiter, issued, lastWriter>>
    /\ UNCHANGED aux

RegisterLimit(i, env) ==
    /\ req[i].pc = "g_limit"
    /\ \E xff \in env.xffs, o \in env.limitOutcomes :
          LET r == [req[i] EXCEPT !.xff = xff]
              l == limit("registerIp", getClientIP(xff), o, now)
          IN  /\ limiter' = l.limiter
              /\ req' = [req EXCEPT ![i] =
                    IF l.threw
                    THEN Respond(r, catchAll(r.route, ThrownError("limiter")),
                                 "ip_threw")
                    ELSE IF ~l.success
                    THEN Respond(r,
                           tooManyRequests("Too many registration attempts"),
                           "ip_denied")
                    ELSE Advance(r, "g_validate",
                                 IF o = "timeout" THEN "ip_timeout" ELSE "ip_ok")]
    /\ UNCHANGED <<now, ticks, db, issued, lastWriter>>
    /\ UNCHANGED aux

Honeys == {"", "bot"}

\* if (data._honey): a non-empty string.
\* (variant: the field is not looked at)
honeypotIgnored(honey) == FALSE
honeypotTripped(honey) == honey # ""

RegisterValidate(i, env) ==
    /\ req[i].pc = "g_validate"
    /\ \E shape \in env.bodyShapes, email \in env.emails, honey \in env.honeys :
          LET r == req[i]
          IN  req' = [req EXCEPT ![i] =
                CASE shape = "malformed" ->
                       Respond(r, catchAll(r.route, ThrownResponse(invalidJson)),
                               "body_malformed")
                  [] shape = "invalid" ->
                       Respond(r, catchAll(r.route,
                                 ThrownResponse(validationError("password",
                                     "Password must be at least 8 characters"))),
                               "body_invalid")
                  [] OTHER ->
                       IF honeypotTripped(honey)
                       THEN Respond([r EXCEPT !.email = email, !.honey = honey],
                                    apiError("BAD_REQUEST", 400, "Invalid request",
                                             "_honey", "client_error"),
                                    "honeypot")
                       ELSE Advance([r EXCEPT !.email = email, !.honey = honey],
                                    "g_find", "valid")]
    /\ UNCHANGED <<now, ticks, db, limiter, issued, lastWriter>>
    /\ UNCHANGED aux

existingUserResponse ==
    apiSuccess("OK", 200, <<>>, "If this email is valid, you will be able to log in.")
createdResponse ==
    apiSuccess("CREATED", 201, <<>>, "Registration successful. Please log in.")

RegisterFind(i, env) ==
    /\ req[i].pc = "g_find"
    /\ \E o \in env.saveOutcomes :
          LET r == req[i]
          IN  req' = [req EXCEPT ![i] =
                IF o # "ok"
                THEN Respond(r, catchAll(r.route, ThrownError("storage")), "db_threw")
                ELSE IF db[Lower(r.email)].exists
                THEN Respond(r, existingUserResponse, "existing_user")
                ELSE Advance(r, "g_create", "fresh")]
    /\ UNCHANGED <<now, ticks, db, limiter, issued, lastWriter>>
    /\ UNCHANGED aux

\* User.create: the pre-save hook hashes the password; the unique index on
\* email rejects a second document.
RegisterCreate(i, env) ==
    /\ req[i].pc = "g_create"
    /\ \E o \in env.saveOutcomes, pw \in env.passwords :
          LET r == [req[i] EXCEPT !.password = pw]
              u == Lower(r.email)
          IN  IF o # "ok" \/ db[u].exists
              THEN /\ req' = [req EXCEPT ![i] =
                        Respond(r, catchAll(r.route, ThrownError("storage")),
                                IF o # "ok" THEN "save_threw" ELSE "duplicate_key")]
                   /\ UNCHANGED <<db, lastWriter>>
              ELSE /\ db' = [db EXCEPT ![u] =
                        [exists |-> TRUE, password |-> preSave(<<pw>>, TRUE),
                         sessions |-> <<>>, v |-> 0, refreshToken |-> NoToken]]
                   /\ lastWriter' = [lastWriter EXCEPT ![u] = i]
                   /\ req' = [req EXCEPT ![i] =
                        Respond([r EXCEPT !.userId = u], createdResponse, "created")]
    /\ UNCHANGED <<now, ticks, limiter, issued>>
    /\ UNCHANGED aux

\* -------------------------------------------------------------------- CSRF
\* Strings a client can put in the csrf_token cookie or the x-csrf-token
\* header: nothing, '', a token it was given, or one of these with a character
\* of the signature changed, the timestamp moved, a part dropped, emptied or
\* added.
Tampered(tok) ==
    {[tok EXCEPT ![3].s = "hmac'"],
     [tok EXCEPT ![2].n = @ + 1],
     [tok EXCEPT ![1] = EmptyPart],
     <<tok[1], tok[2]>>,
     <<tok[1], tok[2], tok[3], tok[3]>>}
CsrfStrings ==
    {NoCsrfToken, EmptyCsrfToken} \cup csrf.issued
       \cup UNION {Tampered(tok) : tok \in csrf.issued}
\* The header a request carries beside cookie c.
HeaderChoices(c) ==
    {NoCsrfToken, c} \cup (IF Len(c) = 3 THEN {[c EXCEPT ![3].s = "hmac'"]} ELSE {})

CsrfClockSteps == {CSRF_TOKEN_EXPIRY * 1000, CSRF_TOKEN_EXPIRY * 1000 + 1}
CsrfTick ==
    /\ ticks < MaxTicks
    /\ \E d \in CsrfClockSteps : dateNow' = dateNow + d
    /\ ticks' = ticks + 1
    /\ csrf' = [csrf EXCEPT !.last = NoOp, !.setCookie = NoSetCookie]
    /\ UNCHANGED <<now, db, limiter, req, issued, lastWriter, config, calls, conn>>

\* GET /api/v1/auth/csrf: the per-IP limit, then setCsrfCookie.
GetCsrf ==
    /\ Cardinality(csrf.issued) < MaxCsrfTokens
    /\ \E xff \in {<<>>}, o \in {"answer", "throw"}, rand \in CsrfRandoms :
          LET l == limit("csrfIp", getClientIP(xff), o, dateNow \div 1000)
              tok == generateCsrfToken(rand, dateNow)
              op == [NoOp EXCEPT !.op = "getCsrf"]
          IN  /\ limiter' = l.limiter
              /\ csrf' =
                   IF l.threw
                   THEN [csrf EXCEPT !.last = [op EXCEPT !.status = 500],
                                     !.setCookie = NoSetCookie]
                   ELSE IF ~l.success
                   THEN [csrf EXCEPT !.last = [op EXCEPT !.status = 429],
                                     !.setCookie = NoSetCookie]
                   ELSE [issued |-> csrf.issued \cup {tok},
                         setCookie |-> [set |-> TRUE, value |-> tok,
                                        secure |-> isProduction(config),
                                        maxAge |-> CSRF_TOKEN_EXPIRY],
                         last |-> [op EXCEPT !.status = 200, !.cookie = tok]]
    /\ UNCHANGED <<now, ticks, db, req, issued, lastWriter, config, dateNow, calls, conn>>

\* proxy(request): a request under /api/v1 failing validateCsrfToken is
\* answered 403 there; every other request goes on to its handler.  `last`
\* holds the one request observed at the current instant.
Proxy ==
    /\ csrf.last.op \notin {"proxy", "verify"}
    /\ \E method \in Methods, path \in Paths, c \in CsrfStrings :
       \E h \in HeaderChoices(c) :
          LET ok == validateCsrfToken(method, path, c, h, dateNow)
              blocked == path \in ApiV1Paths /\ ~ok
          IN  csrf' = [csrf EXCEPT !.setCookie = NoSetCookie,
                         !.last = [op |-> "proxy", method |-> method, path |-> path,
                                   cookie |-> c, header |-> h, valid |-> ok,
                                   expired |-> FALSE,
                                   status |-> IF blocked THEN 403 ELSE 0,
                                   attr |-> IF blocked THEN "csrf" ELSE "-",
                                   reached |-> ~blocked]]
    /\ UNCHANGED <<now, ticks, db, limiter, req, issued, lastWriter, config, dateNow, calls, conn>>

\* verifyCsrfToken applied to a string, at the current instant.
VerifyCsrf ==
    /\ csrf.last.op \notin {"proxy", "verify"}
    /\ \E tok \in CsrfStrings :
          LET v == verifyCsrfToken(tok, dateNow)
          IN  csrf' = [csrf EXCEPT !.setCookie = NoSetCookie,
                         !.last = [NoOp EXCEPT !.op = "verify", !.cookie = tok,
                                               !.valid = v.valid,
                                               !.expired = v.expired]]
    /\ UNCHANGED <<now, ticks, db, limiter, req, issued, lastWriter, config, dateNow, calls, conn>>

\* ------------------------------------------------------------ specification
LoginStep(i, env) ==
    \/ StartLogin(i, env)
    \/ LoginIpCheck(i, env)
    \/ LoginValidate(i, env)
    \/ LoginEmailCheck(i, env)
    \/ LoginFind(i, env)
    \/ LoginSign(i, env)
    \/ LoginSave(i, env)

RefreshStep(i, env) ==
    \/ StartRefresh(i, env)
    \/ RefreshFind(i, env)
    \/ RefreshRevoke(i, env)
    \/ RefreshAlert(i, env)
    \/ RefreshSign(i, env)
    \/ RefreshRotate(i, env)

RegisterStep(i, env) ==
    \/ StartRegister(i, env)
    \/ RegisterLimit(i, env)
    \/ RegisterValidate(i, env)
    \/ RegisterFind(i, env)
    \/ RegisterCreate(i, env)

\* Concurrent refreshes of two logged-in users and further logins of one of
\* them, against a healthy limiter; saves may fail.
SessionEnv ==
    [slots |-> Slots, sequential |-> FALSE, routes |-> {"v1"},
     xffs |-> {<<>>}, limitOutcomes |-> {"answer"}, bodyShapes |-> {"valid"},
     emails |-> {"b@x.com"}, passwords |-> {"longenough1"},
     honeys |-> {""}, userAgents |-> UserAgents \ {""}, returnTokens |-> {FALSE},
     dbOutcomes |-> {"ok"}, saveOutcomes |-> {"ok", "query_fail"},
     cookies |-> {NoToken, GarbageToken, ForgedToken}, clockSteps |-> {1, RefreshTtl}]

Init == InitWith(Emails, Emails, {"none"})

Next ==
    \/ Tick(SessionEnv)
    \/ \E i \in Slots : LoginStep(i, SessionEnv) \/ RefreshStep(i, SessionEnv)

Spec == Init /\ [][Next]_vars

\* One request at a time through the login and registration pipelines, with
\* every shape of input and every failure of the limiter and of storage.
PipelineEnv ==
    [slots |-> 1..MaxPipelineReqs, sequential |-> TRUE, routes |-> {"v1", "legacy"},
     xffs |-> XffHeaders, limitOutcomes |-> LimitOutcomes, bodyShapes |-> BodyShapes,
     emails |-> RawEmails, passwords |-> Passwords,
     honeys |-> Honeys, userAgents |-> {""}, returnTokens |-> BOOLEAN,
     dbOutcomes |-> DbOutcomes, saveOutcomes |-> {"ok", "query_fail"},
     cookies |-> {NoToken}, clockSteps |-> {LoginEmailWindow}]

InitPipeline == InitWith({"a@x.com"}, {}, Preloads)

NextPipeline ==
    \/ Tick(PipelineEnv)
    \/ \E i \in Slots : LoginStep(i, PipelineEnv) \/ RegisterStep(i, PipelineEnv)

SpecPipeline == InitPipeline /\ [][NextPipeline]_vars

\* The CSRF token service and the proxy in front of /api/v1, in every
\* deployment environment.
\* One request at a time, a login or a refresh, with every input and outcome.
OrderEnv ==
    [slots |-> 1..MaxPipelineReqs, sequential |-> TRUE, routes |-> {"v1"},
     xffs |-> {<<>>}, limitOutcomes |-> LimitOutcomes, bodyShapes |-> BodyShapes,
     emails |-> RawEmails, passwords |-> Passwords,
     honeys |-> {""}, userAgents |-> {""}, returnTokens |-> {FALSE},
     dbOutcomes |-> DbOutcomes, saveOutcomes |-> {"ok", "query_fail"},
     cookies |-> {NoToken, GarbageToken, ForgedToken}, clockSteps |-> {1}]

InitOrder == InitWith(Emails, Emails, {"none", "loginIp", "loginEmail"})

NextOrder ==
    \/ Tick(OrderEnv)
    \/ \E i \in Slots : LoginStep(i, OrderEnv) \/ RefreshStep(i, OrderEnv)

SpecOrder == InitOrder /\ [][NextOrder]_vars

\* Concurrent registrations, the store and the limiter answering.
RegisterEnv ==
    [slots |-> Slots, sequential |-> FALSE, routes |-> {"v1"},
     xffs |-> {<<>>}, limitOutcomes |-> {"answer"}, bodyShapes |-> {"valid"},
     emails |-> RawEmails, passwords |-> {"longenough1"},
     honeys |-> {""}, userAgents |-> {""}, returnTokens |-> {FALSE},
     dbOutcomes |-> {"ok"}, saveOutcomes |-> {"ok", "query_fail"},
     cookies |-> {NoToken}, clockSteps |-> {1}]

InitRegister == InitWith({"a@x.com"}, {}, {"none"})

NextRegister == \E i \in Slots : RegisterStep(i, RegisterEnv)

SpecRegister == InitRegister /\ [][NextRegister]_vars

\* ------------------------------------------------------ storage connection
\* After the `if (cached.conn)` test: is a mongoose.connect attempt started?
\* (variant: the pending promise is not consulted)
startsAttemptAlways(cache) == TRUE
startsAttempt(cache) == cache.promise = 0

OtherVars == <<now, ticks, db, limiter, req, issued, lastWriter,
               config, dateNow, csrf, calls>>

\* The synchronous part of connectToDatabase / connectDB, up to the first
\* await: return the cached connection, or join the pending promise, or call
\* mongoose.connect and cache its promise.  Attempt k's promise is numbered k.
DbCall(c) ==
    /\ conn.callers[c].pc = "idle"
    /\ \E m \in Initializers :
          LET cache == conn.cache[m]
              k == Len(conn.attempts) + 1
          IN  IF cache.conn # 0
              THEN conn' = [conn EXCEPT !.callers[c] =
                              [impl |-> m, pc |-> "returned", promise |-> 0,
                               result |-> cache.conn]]
              ELSE IF startsAttempt(cache)
              THEN /\ k <= MaxAttempts
                   /\ conn' = [conn EXCEPT
                         !.attempts = Append(@, [impl |-> m, state |-> "pending"]),
                         !.cache[m].promise = k,
                         !.callers[c] = [impl |-> m, pc |-> "awaiting",
                                         promise |-> k, result |-> 0]]
              ELSE conn' = [conn EXCEPT !.callers[c] =
                              [impl |-> m, pc |-> "awaiting",
                               promise |-> cache.promise, result |-> 0]]
    /\ UNCHANGED OtherVars

\* mongoose.connect fulfils: `cached.conn = await cached.promise` in every
\* awaiting connectToDatabase, or the .then callback of connectDB, stores the
\* connection; the reactions of one promise run back to back.
DbResolve(k) ==
    /\ k \in 1..Len(conn.attempts)
    /\ conn.attempts[k].state = "pending"
    /\ conn' = [conn EXCEPT
          !.attempts[k].state = "resolved",
          !.cache[conn.attempts[k].impl].conn = k,
          !.callers = [c \in Callers |->
               IF @[c].pc = "awaiting" /\ @[c].promise = k
               THEN [@[c] EXCEPT !.pc = "returned", !.result = k]
               ELSE @[c]]]
    /\ UNCHANGED OtherVars

\* mongoose.connect rejects: every catch clause (or the .catch callback)
\* clears cached.promise and rethrows to its caller.
DbReject(k) ==
    /\ k \in 1..Len(conn.attempts)
    /\ conn.attempts[k].state = "pending"
    /\ conn' = [conn EXCEPT
          !.attempts[k].state = "rejected",
          !.cache[conn.attempts[k].impl].promise = 0,
          !.callers = [c \in Callers |->
               IF @[c].pc = "awaiting" /\ @[c].promise = k
               THEN [@[c] EXCEPT !.pc = "threw"]
               ELSE @[c]]]
    /\ UNCHANGED OtherVars

\* The caller is done with the connection (or the error); it may call again.
DbDone(c) ==
    /\ conn.callers[c].pc \in {"returned", "threw"}
    /\ conn' = [conn EXCEPT !.callers[c] = IdleCaller]
    /\ UNCHANGED OtherVars

InitDb == InitWith({}, {}, {"none"})

NextDb ==
    \/ \E c \in Callers : DbCall(c) \/ DbDone(c)
    \/ \E k \in 1..MaxAttempts : DbResolve(k) \/ DbReject(k)

SpecDb == InitDb /\ [][NextDb]_vars

\* -------------------------------------------------------------- disconnect
\* connectDB attempts started so far.
connectDBAttempts ==
    Cardinality({k \in 1..Len(conn.attempts) : conn.attempts[k].impl = "connectDB"})

getConnectionStatus(cache) ==
    [isConnected |-> cache.conn # 0,
     isConnecting |-> cache.promise # 0 /\ cache.conn = 0]

\* disconnectDB up to its first await: with a cached connection it awaits
\* conn.disconnect(); without one it only clears cached.promise and returns.
DisconnectCall ==
    /\ conn.disc.pc # "awaiting"
    /\ IF conn.cache["connectDB"].conn # 0
       THEN conn' = [conn EXCEPT !.disc.pc = "awaiting"]
       ELSE conn' = [conn EXCEPT !.cache["connectDB"].promise = 0,
                                 !.disc = [pc |-> "returned",
                                           mark |-> connectDBAttempts]]
    /\ UNCHANGED OtherVars

\* conn.disconnect() fulfils: both cache fields are cleared.
DisconnectFinish ==
    /\ conn.disc.pc = "awaiting"
    /\ conn' = [conn EXCEPT !.cache["connectDB"] = NoConnCache,
                            !.disc = [pc |-> "returned",
                                      mark |-> connectDBAttempts]]
    /\ UNCHANGED OtherVars

\* conn.disconnect() rejects: disconnectDB throws, the cache is left as it was.
DisconnectThrow ==
    /\ conn.disc.pc = "awaiting"
    /\ conn' = [conn EXCEPT !.disc.pc = "threw"]
    /\ UNCHANGED OtherVars

NextDisconnect ==
    \/ \E c \in Callers : DbCall(c) \/ DbDone(c)
    \/ \E k \in 1..MaxAttempts : DbResolve(k) \/ DbReject(k)
    \/ DisconnectCall \/ DisconnectFinish \/ DisconnectThrow

SpecDisconnect == InitDb /\ [][NextDisconnect]_vars

\* ------------------------------------------------------- limiter histories
Policies == {"registerIp", "loginIp", "loginEmail", "csrfIp"}
PolicyKeys(p) == {k \in LimiterKeys : k[1] = p}

\* limiter.limit(key) under the behaviour's policy, answered by the store.
LimitCall ==
    /\ Len(calls.log) < MaxCalls
    /\ \E k \in PolicyKeys(calls.policy) :
          LET l == limit(k[1], k[2], "answer", now)
          IN  /\ limiter' = l.limiter
              /\ calls' = [calls EXCEPT !.log =
                    Append(@, [key |-> k[2], t |-> now, success |-> l.success])]
    /\ UNCHANGED <<now, ticks, db, req, issued, lastWriter, config, dateNow, csrf, conn>>

\* Time passes: a tenth of the window, two fifths of it, or all of it.
LimiterTick ==
    /\ ticks < MaxLimiterTicks
    /\ \E d \in {WindowOf(calls.policy) \div 10, (2 * WindowOf(calls.policy)) \div 5,
                  WindowOf(calls.policy)} : now' = now + d
    /\ ticks' = ticks + 1
    /\ UNCHANGED <<db, limiter, req, issued, lastWriter, aux>>

\* One policy per behaviour; the clock starts at a window boundary or nine
\* tenths into a window; the first key has made no call yet or, at the
\* starting instant, all but two of the calls its limit permits.
InitLimiter ==
    /\ ticks = 0
    /\ db = [e \in Emails |-> NoUser]
    /\ req = [i \in Slots |-> IdleReq]
    /\ issued = {}
    /\ lastWriter = [e \in Emails |-> 0]
    /\ config = DefaultConfig
    /\ dateNow = 0
    /\ csrf = NoCsrfState
    /\ conn = NoDbState
    /\ \E p \in Policies, early \in BOOLEAN, burst \in BOOLEAN :
          LET W == WindowOf(p)
              t0 == IF early THEN 0 ELSE (9 * W) \div 10
              n == IF burst THEN LimitOf(p) - 2 ELSE 0
              k1 == PreloadKey(p)
          IN  /\ now = t0
              /\ limiter = [k \in LimiterKeys |->
                    IF k = k1 THEN [win |-> t0 \div W, cnt |-> n, prev |-> 0]
                    ELSE EmptyWindow]
              /\ calls = [policy |-> p,
                          log |-> [m \in 1..n |->
                                     [key |-> k1[2], t |-> t0, success |-> TRUE]]]

NextLimiter == LimitCall \/ LimiterTick

SpecLimiter == InitLimiter /\ [][NextLimiter]_vars

InitCsrf ==
    /\ now = 0
    /\ ticks = 0
    /\ db = [e \in Emails |-> NoUser]
    /\ \E p \in {"none", "csrfIp"} :
          limiter = [k \in LimiterKeys |->
                        IF p # "none" /\ k = PreloadKey(p)
                        THEN [win |-> 0, cnt |-> LimitOf(k[1]), prev |-> 0]
                        ELSE EmptyWindow]
    /\ req = [i \in Slots |-> IdleReq]
    /\ issued = {}
    /\ lastWriter = [e \in Emails |-> 0]
    /\ \E ne \in NodeEnvs, flag \in TestingFlags :
          config = [nodeEnv |-> ne, rawIsTesting |-> flag]
    /\ dateNow = 0
    /\ csrf = NoCsrfState
    /\ calls = NoCalls
    /\ conn = NoDbState

NextCsrf ==
    \/ CsrfTick
    \/ GetCsrf
    \/ Proxy
    \/ VerifyCsrf

SpecCsrf == InitCsrf /\ [][NextCsrf]_vars


\* ------------------------------------------------------------------ claims
InLog(r, entry) == \E k \in 1..Len(r.log) : r.log[k] = entry
LastEntry(r) == IF r.log = <<>> THEN "-" ELSE r.log[Len(r.log)]
\* Requests i and j were in flight at the same time.
Overlap(i, j) == i # j /\ i \notin req[j].after /\ j \notin req[i].after
\* No other request has been in flight since request i started.
Alone(i) == \A j \in Slots \ {i} : req[j].pc = "idle" \/ j \in req[i].after

\* C1: a refresh whose token verifies and whose user exists but holds no
\* session with that token signs nothing and sets no cookie; it ends in the
\* 403 security alert (or a storage 500), the alert only after the emptied
\* list was saved; and with no other request in flight the stored list is
\* empty when the 403 is returned.  A 403 arises on this path only.
C1_ReuseRevokesAll ==
    \A i \in Slots :
       LET r == req[i]
           u == r.userId
       IN  /\ r.resp.status = 403 =>
                r.kind = "refresh" /\ InLog(r, "reuse_detected")
           /\ (r.kind = "refresh" /\ InLog(r, "reuse_detected")) =>
                /\ r.access = NoToken
                /\ r.refresh = NoToken
                /\ r.cookies = NoCookies
                /\ ~InLog(r, "signed")
                /\ r.pc \in {"r_revoke", "r_revoked", "done"}
                /\ r.pc = "r_revoke" => r.idx = 0
                /\ (r.pc = "r_revoked" /\ lastWriter[u] = i) => db[u].sessions = <<>>
                /\ (r.pc = "r_revoked" /\ Alone(i)) => db[u].sessions = <<>>
                /\ r.pc = "done" =>
                     \/ /\ r.resp = securityAlert
                        /\ r.log = <<"verified", "reuse_detected", "revoked", "alert">>
                        /\ Alone(i) => db[u].sessions = <<>>
                     \/ /\ r.resp.status = 500
                        /\ ~InLog(r, "revoked")

C1_Witness ==
    \E i \in Slots :
       /\ req[i].kind = "refresh"
       /\ req[i].pc = "done"
       /\ req[i].resp.status = 403
       /\ Alone(i)
       /\ lastWriter[req[i].userId] = i
       /\ db[req[i].userId].sessions = <<>>

\* C2: when the same refresh token is presented to two refresh calls one
\* after the other, and the first answers 200, the second (its token still
\* verifying, storage healthy) answers 403.
C2_SecondPresentationIsReuse ==
    \A i, j \in Slots :
       ( /\ i # j
         /\ req[i].kind = "refresh" /\ req[j].kind = "refresh"
         /\ req[i].cookie = req[j].cookie
         /\ i \in req[j].after
         /\ req[i].resp.status = 200
         /\ req[j].pc = "done"
         /\ req[j].resp.status \notin {401, 500} )
       => req[j].resp.status = 403

\* C3: the save of a successful refresh changes the stored users in exactly
\* one field: the refreshToken of the session at the matched index changes to
\* the token set in the refreshToken cookie.  The number of sessions, every
\* other field of that session, every other session and every other user are
\* as before.
RotationStep(i) ==
    /\ req[i].pc = "r_rotate"
    /\ req'[i].pc = "done"
    /\ req'[i].resp.status = 200
C3_RotationChangesOneField ==
    [][\A i \in Slots :
         RotationStep(i) =>
            LET u == req[i].userId
                idx == req[i].idx
                new == req'[i].cookies.refreshToken
            IN  /\ idx \in 1..Len(db[u].sessions)
                /\ idx \in 1..Len(db'[u].sessions)
                /\ db'[u].sessions[idx].refreshToken = new
                /\ db'[u].sessions[idx].refreshToken # db[u].sessions[idx].refreshToken
                /\ db' = [db EXCEPT ![u].sessions[idx].refreshToken = new]]_vars

\* C4: two refresh calls in flight together present the same live token and
\* one of them, the winner, rotates the session and answers 200.  The other,
\* having loaded the user with no session holding the token, sets no cookie
\* and answers 403 (or a storage 500); and once it has saved, as long as no
\* third request has written the user since, the list is empty and the session
\* the winner rotated is gone.
C4_LoserRevokesWinner ==
    \A i, j \in Slots :
       ( /\ Overlap(i, j)
         /\ req[i].kind = "refresh" /\ req[j].kind = "refresh"
         /\ req[i].cookie = req[j].cookie
         /\ req[i].pc = "done" /\ req[i].resp.status = 200
         /\ req[i].cookies.refreshToken # req[i].cookie
         /\ InLog(req[j], "reuse_detected") )
       => LET u == req[j].userId
          IN  /\ req[j].cookies = NoCookies
              /\ req[j].pc = "done" => req[j].resp.status \in {403, 500}
              /\ ( /\ InLog(req[j], "revoked")
                   /\ lastWriter[u] \in {i, j} )
                 => /\ db[u].sessions = <<>>
                    /\ findSessionIndex(db[u].sessions, req[i].cookies.refreshToken) = 0

C4_Witness ==
    \E i, j \in Slots :
       /\ Overlap(i, j)
       /\ req[i].kind = "refresh" /\ req[j].kind = "refresh"
       /\ req[i].cookie = req[j].cookie
       /\ req[i].pc = "done" /\ req[i].resp.status = 200
       /\ req[i].cookies.refreshToken # req[i].cookie
       /\ req[j].pc = "done" /\ req[j].resp = securityAlert
       /\ lastWriter[req[j].userId] = j
       /\ db[req[j].userId].sessions = <<>>

\* C5: a login on the versioned route whose e-mail and password match ends,
\* unless storage fails, in a 200 that sets the access and refresh cookies to
\* tokens that verify, when issued, to the user's id, and its save appends exactly one session
\* of type 'credential' holding the refresh cookie's token; the sessions the
\* user had, and every other user, are unchanged.
C5_LoginAppendsOneSession ==
    [][\A i \in Slots :
         ( /\ req[i].kind = "login" /\ req[i].route = "v1"
           /\ req[i].pc = "l_save"
           /\ req'[i].pc = "done" )
         => LET u == req[i].userId
                c == req'[i].cookies
            IN  /\ InLog(req[i], "credentials_ok")
                /\ u = Lower(req[i].email)
                /\ \/ /\ req'[i].resp.status = 500
                      /\ LastEntry(req'[i]) = "save_threw"
                      /\ c = NoCookies
                      /\ db' = db
                   \/ /\ req'[i].resp.status = 200
                      /\ req'[i].resp.type = "success"
                      /\ verifyToken(c.accessToken, c.accessToken.iat)
                            = [ok |-> TRUE, userId |-> u]
                      /\ verifyToken(c.refreshToken, c.refreshToken.iat)
                            = [ok |-> TRUE, userId |-> u]
                      /\ c.accessToken.iat <= now
                      /\ c.accessToken.exp = c.accessToken.iat + AccessTtl
                      /\ c.refreshToken.exp = c.refreshToken.iat + RefreshTtl
                      /\ Len(db'[u].sessions) = Len(db[u].sessions) + 1
                      /\ SubSeq(db'[u].sessions, 1, Len(db[u].sessions)) = db[u].sessions
                      /\ db'[u].sessions[Len(db'[u].sessions)].type = "credential"
                      /\ db'[u].sessions[Len(db'[u].sessions)].refreshToken = c.refreshToken
                      /\ db'[u].password = db[u].password
                      /\ \A e \in Emails \ {u} : db'[e] = db[e]]_vars

C5_Witness ==
    \E i \in Slots :
       /\ req[i].kind = "login" /\ req[i].route = "v1"
       /\ req[i].pc = "done"
       /\ req[i].resp.status = 200
       /\ lastWriter[req[i].userId] = i
       /\ Len(db[req[i].userId].sessions) = 2
       /\ db[req[i].userId].sessions[2].type = "credential"
       /\ db[req[i].userId].sessions[2].refreshToken = req[i].cookies.refreshToken

\* C6: a login that reached the user lookup and did not fail in storage
\* without credentials that match ends in one and the same response whether no
\* user has the e-mail or the password comparison failed: 401, client_error,
\* UNAUTHORIZED, 'Invalid credentials', attr null; no cookie is set, nothing is
\* stored and no token is issued.
C6_InvalidCredentialsUniform ==
    [][\A i \in Slots :
         ( /\ req[i].kind = "login"
           /\ req[i].pc = "l_find"
           /\ req'[i].pc = "done"
           /\ LastEntry(req'[i]) # "db_threw" )
         => /\ LastEntry(req'[i]) \in {"no_user", "bad_password"}
            /\ LastEntry(req'[i]) = "no_user" <=> ~db[Lower(req[i].email)].exists
            /\ req[i].log[2] = "valid"
            /\ req[i].log[3] \in {"email_ok", "email_timeout"}
            /\ req'[i].resp =
                 [status |-> 401, type |-> "client_error", code |-> "UNAUTHORIZED",
                  detail |-> "Invalid credentials", attr |-> "null", data |-> <<>>]
            /\ req'[i].cookies = NoCookies
            /\ db' = db
            /\ issued' = issued]_vars

C6_Witness ==
    \E i \in Slots :
       /\ req[i].kind = "login"
       /\ req[i].pc = "done"
       /\ LastEntry(req[i]) = "no_user"
       /\ ~db[Lower(req[i].email)].exists
       /\ req[i].resp.status = 401

\* C7: a registration that passed the rate limit, validation and the honeypot
\* check and found the e-mail already registered answers with the status,
\* code, detail and data of a registration that created the user.
C7_RegisterResponsesCoincide ==
    \A i \in Slots :
       ( /\ req[i].kind = "register"
         /\ req[i].pc = "done"
         /\ LastEntry(req[i]) \in {"existing_user", "created"} )
       => /\ req[i].resp.status = createdResponse.status
          /\ req[i].resp.code = createdResponse.code
          /\ req[i].resp.detail = createdResponse.detail
          /\ req[i].resp.data = createdResponse.data

\* C8: a login or registration whose body is malformed JSON or fails the
\* schema is answered 400 client_error naming the field, never 500.
C8_ValidationErrorIs400 ==
    \A i \in Slots :
       ( /\ req[i].kind \in {"login", "register"}
         /\ req[i].pc = "done"
         /\ LastEntry(req[i]) \in {"body_malformed", "body_invalid"} )
       => /\ req[i].resp.status = 400
          /\ req[i].resp.type = "client_error"
          /\ req[i].resp.code = "BAD_REQUEST"

\* C9: a login or registration one of whose rate-limit checks threw or timed
\* out is not let through: it has ended, with a 500 server_error, at that
\* check, setting no cookie.
C9_LimiterFailureFailsClosed ==
    \A i \in Slots :
       ( /\ req[i].kind \in {"login", "register"}
         /\ \E e \in {"ip_threw", "ip_timeout", "email_threw", "email_timeout"} :
               InLog(req[i], e) )
       => /\ req[i].pc = "done"
          /\ req[i].resp.status = 500
          /\ req[i].resp.type = "server_error"
          /\ LastEntry(req[i]) \in {"ip_threw", "ip_timeout", "email_threw", "email_timeout"}
          /\ req[i].cookies = NoCookies

\* C10: a login consults the per-IP limiter first and the per-e-mail limiter
\* third, after validation; a login the per-IP limiter denied has ended with
\* 429 at that point; and the per-e-mail counters change only in the step of
\* a login that passed the per-IP check and validation, and then only the
\* counter of that login's e-mail.
EmailCounters == [e \in RawEmails |-> limiter[<<"loginEmail", e>>]]
EmailEntries == {"email_ok", "email_denied", "email_threw", "email_timeout"}
C10_IpBeforeEmail ==
    /\ [](\A i \in Slots :
            req[i].kind = "login" =>
               LET r == req[i]
               IN  /\ \A k \in 1..Len(r.log) :
                         r.log[k] \in EmailEntries =>
                            /\ k = 3
                            /\ r.log[1] \in {"ip_ok", "ip_timeout"}
                            /\ r.log[2] = "valid"
                   /\ InLog(r, "ip_denied") =>
                         /\ r.pc = "done"
                         /\ r.resp.status = 429
                         /\ r.log = <<"ip_denied">>
                   /\ LastEntry(r) \in {"body_malformed", "body_invalid"} =>
                         Len(r.log) = 2)
    /\ [][ /\ EmailCounters' # EmailCounters =>
                \E i \in Slots :
                   /\ req[i].kind = "login"
                   /\ req[i].pc = "l_email"
                   /\ req[i].log \in {<<"ip_ok", "valid">>, <<"ip_timeout", "valid">>}
                   /\ req'[i].log[3] = "email_ok"
                   /\ \A e \in RawEmails \ {req[i].email} :
                         EmailCounters'[e] = EmailCounters[e]
           /\ \A i \in Slots :
                 (req[i].pc \in {"l_ip", "l_validate"} /\ req'[i] # req[i]) =>
                    EmailCounters' = EmailCounters ]_vars

C10_Witness ==
    \E i \in Slots :
       /\ req[i].kind = "login"
       /\ req[i].pc = "done"
       /\ req[i].resp.status = 429
       /\ req[i].log = <<"ip_denied">>
       /\ \A e \in RawEmails : limiter[<<"loginEmail", e>>] = EmptyWindow

\* C11: for a request with an unsafe method and a path outside SKIP_PATHS,
\* validateCsrfToken is true exactly when cookie and header are both present,
\* equal, and the cookie is a token the server signed (however old); a safe
\* method or an exempt path always passes; and the proxy answers every
\* /api/v1 request that fails with 403, attr 'csrf', before any handler.
C11_CsrfGate ==
    LET o == csrf.last
    IN  o.op = "proxy" =>
           /\ (o.method \in {"GET", "HEAD", "OPTIONS", "TRACE"}
                 \/ o.path \in {"/api/v1/auth/login", "/api/v1/auth/register"})
                => o.valid
           /\ (o.method \notin {"GET", "HEAD", "OPTIONS", "TRACE"}
                 /\ o.path \notin {"/api/v1/auth/login", "/api/v1/auth/register"})
                => (o.valid <=> /\ o.cookie \notin {NoCsrfToken, EmptyCsrfToken}
                                /\ o.header \notin {NoCsrfToken, EmptyCsrfToken}
                                /\ o.cookie = o.header
                                /\ o.cookie \in csrf.issued)
           /\ (o.path \in ApiV1Paths /\ ~o.valid)
                => (o.status = 403 /\ o.attr = "csrf" /\ ~o.reached)
           /\ (o.path \notin ApiV1Paths \/ o.valid)
                => (o.status = 0 /\ o.reached)

C11_Witness ==
    /\ csrf.last.op = "proxy"
    /\ csrf.last.method = "POST"
    /\ csrf.last.path = "/api/v1/auth/refresh"
    /\ csrf.last.cookie \in csrf.issued
    /\ csrf.last.header = csrf.last.cookie
    /\ dateNow - csrf.last.cookie[2].n > 24 * 60 * 60 * 1000
    /\ csrf.last.valid
    /\ csrf.last.reached

\* C12: verifyCsrfToken on a token the server generated is valid, and expired
\* exactly when its age exceeds 24 hours; on any other string (a character of
\* the signature changed, a part missing, empty or added) it is invalid and
\* not expired; invalid-and-expired is never returned.
C12_VerifyCsrfToken ==
    LET o == csrf.last
    IN  o.op = "verify" =>
           /\ o.cookie \in csrf.issued =>
                 /\ o.valid
                 /\ o.expired <=> (dateNow - o.cookie[2].n > 24 * 60 * 60 * 1000)
           /\ o.cookie \notin csrf.issued => (~o.valid /\ ~o.expired)
           /\ ~(~o.valid /\ o.expired)

C12_Witness ==
    /\ csrf.last.op = "verify"
    /\ csrf.last.cookie \in csrf.issued
    /\ dateNow - csrf.last.cookie[2].n = 24 * 60 * 60 * 1000
    /\ csrf.last.valid
    /\ ~csrf.last.expired

\* C19: a cookie set where NODE_ENV is 'production' and NEXT_PUBLIC_IS_TESTING
\* is not enabled (unset, so 'false' by default, or set to 'false' or '') is
\* secure, and a cookie set anywhere else is not.
C19_SecureInProduction ==
    csrf.setCookie.set =>
       (csrf.setCookie.secure <=> /\ config.nodeEnv = "production"
                                  /\ config.rawIsTesting # "true")

\* C13: a refresh request presenting signToken(p, d) after elapsed time e is
\* verified with p's userId when e < d and gets the null payload (401) when
\* e >= d; a malformed or wrongly signed token gets the null payload too, and
\* in no case does the verification raise (no 500).
C13_VerifyAfterSign ==
    [][\A i \in Slots :
          (req[i].pc = "idle" /\ req'[i].kind = "refresh") =>
             LET c == req'[i].cookie
                 r == req'[i]
                 null == /\ LastEntry(r) = "token_invalid"
                         /\ r.resp.status = 401
             IN  /\ \A u \in Emails, d \in {15 * 60, 7 * 24 * 60 * 60} :
                       c = signToken(u, d, c.iat) =>
                          IF now - c.iat < d
                          THEN LastEntry(r) = "verified" /\ r.userId = u
                          ELSE null
                 /\ c \in {GarbageToken, ForgedToken} => null
                 /\ r.resp.status # 500]_vars

C13_Witness ==
    \E i \in Slots :
       /\ req[i].kind = "refresh"
       /\ req[i].cookie = signToken("a@x.com", RefreshTtl, 0)
       /\ now = RefreshTtl
       /\ LastEntry(req[i]) = "token_invalid"

PendingAttempts(m) ==
    {k \in 1..Len(conn.attempts) :
        conn.attempts[k].impl = m /\ conn.attempts[k].state = "pending"}

\* C14: per initializer, the callers waiting while no connection is cached
\* all wait on one pending mongoose.connect attempt, the one the cache holds;
\* the callers that returned hold the same connection, the cached one; and
\* while a connection is cached no step starts an attempt.
C14_SingleConnectAttempt ==
    /\ [](\A m \in Initializers :
            /\ Cardinality(PendingAttempts(m)) <= 1
            /\ \A c \in Callers :
                  (conn.callers[c].impl = m /\ conn.callers[c].pc = "awaiting") =>
                     /\ conn.cache[m].conn = 0
                     /\ conn.callers[c].promise = conn.cache[m].promise
                     /\ PendingAttempts(m) = {conn.callers[c].promise}
            /\ \A c \in Callers :
                  (conn.callers[c].impl = m /\ conn.callers[c].pc = "returned") =>
                     /\ conn.callers[c].result # 0
                     /\ conn.callers[c].result = conn.cache[m].conn)
    /\ [][\A m \in Initializers :
            (conn.cache[m].conn # 0 \/ PendingAttempts(m) # {}) =>
               \A k \in 1..Len(conn'.attempts) :
                  conn'.attempts[k].impl = m => k <= Len(conn.attempts)]_vars

C14_Witness ==
    \E c1, c2 \in Callers :
       /\ c1 # c2
       /\ conn.callers[c1].impl = "withDatabase"
       /\ conn.callers[c2].impl = "withDatabase"
       /\ conn.callers[c1].pc = "returned"
       /\ conn.callers[c2].pc = "returned"
       /\ conn.callers[c1].result = conn.callers[c2].result
       /\ Len(conn.attempts) = 1

SuccessfulLogins(u) ==
    {i \in Slots : /\ req[i].kind = "login" /\ req[i].pc = "done"
                   /\ req[i].userId = u /\ req[i].resp.status = 200}

\* C15: with no refresh request about, once the login requests have all
\* completed, a user's session list is the one they had followed by as many
\* sessions as there were successful logins, and each refresh token handed
\* to a login in its cookie is held by as many of the new sessions as there
\* are logins that received it.
C15_ConcurrentLoginsIndependent ==
    (\A i \in Slots : req[i].kind # "refresh" /\ req[i].pc \in {"idle", "done"}) =>
       \A u \in Emails :
          LET before == LoggedInUser(u, "longenough1").sessions
              all == db[u].sessions
              new == SubSeq(all, Len(before) + 1, Len(all))
              handed(tok) == {i \in SuccessfulLogins(u) :
                                 req[i].cookies.refreshToken = tok}
              holding(tok) == {k \in 1..Len(new) : new[k].refreshToken = tok}
          IN  /\ Len(all) = Len(before) + Cardinality(SuccessfulLogins(u))
              /\ SubSeq(all, 1, Len(before)) = before
              /\ \A i \in SuccessfulLogins(u) :
                    Cardinality(holding(req[i].cookies.refreshToken))
                       = Cardinality(handed(req[i].cookies.refreshToken))

C15_Witness ==
    \E i, j \in Slots :
       /\ Overlap(i, j)
       /\ {i, j} \subseteq SuccessfulLogins("b@x.com")
       /\ \A k \in Slots : req[k].kind # "refresh" /\ req[k].pc \in {"idle", "done"}
       /\ Len(db["b@x.com"].sessions) = 3
       /\ req[i].cookies.refreshToken # req[j].cookies.refreshToken

\* C16: a 500 built by a handler's catch-all does not carry the message of
\* the exception that was caught (the limiter's or the store's).
C16_ServerErrorIsSanitized ==
    \A i \in Slots :
       (req[i].pc = "done" /\ req[i].resp.status = 500
          /\ req[i].resp.type = "server_error")
       => req[i].resp.detail \notin {"limiter", "storage"}

\* C17: under each policy (limit N per window W), a call made when N earlier
\* calls of its key were permitted within the last W is denied; the first
\* call made more than W after the key's first call is permitted; and a
\* key's first call is permitted whatever the other keys have done.
C17_LimitPerWindow ==
    LET log == calls.log
        N == LimitOf(calls.policy)
        W == WindowOf(calls.policy)
    IN  \A n \in 1..Len(log) :
           LET c == log[n]
               earlier == {m \in 1..(n - 1) : log[m].key = c.key}
               first == CHOOSE m \in earlier : \A o \in earlier : m <= o
           IN  /\ Cardinality({m \in earlier :
                                  log[m].success /\ log[m].t > c.t - W}) >= N
                     => ~c.success
               /\ (earlier # {} /\ c.t > log[first].t + W
                     /\ \A m \in earlier : log[m].t <= log[first].t + W)
                     => c.success
               /\ earlier = {} => c.success

\* C18: a register request whose body passes the limit and the schema and
\* has a non-empty _honey ends at the honeypot test with 400 and attr
\* '_honey'; it performs no lookup and no creation, so the store is as it
\* was, whether or not its e-mail is registered.
C18_HoneypotRejected ==
    /\ [](\A i \in Slots :
            (req[i].kind = "register" /\ req[i].honey # "") =>
               /\ req[i].pc = "done"
               /\ req[i].resp.status = 400
               /\ req[i].resp.attr = "_honey"
               /\ LastEntry(req[i]) = "honeypot"
               /\ \A e \in {"existing_user", "fresh", "created", "db_threw"} :
                     ~InLog(req[i], e))
    /\ [][\A i \in Slots :
            (req[i].pc = "g_validate" /\ req'[i].honey # "") => db' = db]_vars

C18_Witness ==
    \E i \in Slots :
       /\ req[i].kind = "register"
       /\ req[i].honey # ""
       /\ db[Lower(req[i].email)].exists
       /\ InLog(req[i], "ip_ok")
       /\ req[i].resp.status = 400

\* C20: the data of a successful login response is the pair of raw tokens
\* set in the cookies when the body has returnToken = true, and null when
\* returnToken is false or absent.
C20_ReturnTokenHonoured ==
    \A i \in Slots :
       (req[i].kind = "login" /\ req[i].pc = "done" /\ req[i].resp.status = 200) =>
          req[i].resp.data = IF req[i].returnToken
                             THEN <<req[i].cookies.accessToken,
                                    req[i].cookies.refreshToken>>
                             ELSE <<>>

SessionLists(d) == [e \in Emails |-> d[e].sessions]

\* The checkpoint a log entry belongs to: rate limit, validation, credential
\* or token check, signing, mutation.
Checkpoint(entry) ==
    CASE entry \in {"ip_ok", "ip_timeout", "ip_denied", "ip_threw"} -> 1
      [] entry \in {"valid", "body_malformed", "body_invalid"} -> 2
      [] entry \in {"email_ok", "email_timeout", "email_denied", "email_threw"} -> 3
      [] entry \in {"cookie_missing", "token_invalid", "verified"} -> 3
      [] entry \in {"credentials_ok", "no_user", "bad_password", "db_threw",
                    "reuse_detected", "session_matched"} -> 4
      [] entry = "signed" -> 5
      [] entry \in {"saved", "rotated", "revoked", "save_threw", "version_error"} -> 6
      [] OTHER -> 7

\* C21: in login and refresh the checkpoints are passed in order (rate limit,
\* validation, credential or token check, mutation); a step changes a stored session list only if
\* it is a save step that succeeds; a step sets the cookies only if it is
\* such a step of a request ending in 200, and the stored session then holds
\* the refresh cookie's token; and a request that ends with 429, 400, 401 or
\* 500 has set no cookie and has passed no successful save.
C21_MutationBeforeCookies ==
    /\ [](\A i \in Slots :
            req[i].kind \in {"login", "refresh"} =>
               \A k \in 1..(Len(req[i].log) - 1) :
                  Checkpoint(req[i].log[k]) < Checkpoint(req[i].log[k + 1]))
    /\ [][\A i \in Slots :
          (req'[i] # req[i] /\ req'[i].kind \in {"login", "refresh"}) =>
             LET r == req[i]
                 q == req'[i]
                 u == r.userId
                 saving == r.pc \in {"l_save", "r_rotate", "r_revoke"}
             IN  /\ SessionLists(db') # SessionLists(db) =>
                       /\ saving
                       /\ LastEntry(q) \in {"saved", "rotated", "revoked"}
                       /\ \A e \in Emails \ {u} : db'[e] = db[e]
                 /\ q.cookies # r.cookies =>
                       /\ r.cookies = NoCookies
                       /\ r.pc \in {"l_save", "r_rotate"}
                       /\ q.pc = "done" /\ q.resp.status = 200
                       /\ LastEntry(q) \in {"saved", "rotated"}
                       /\ q.cookies.accessToken # NoToken
                       /\ q.cookies.refreshToken # NoToken
                       /\ r.kind = "login" =>
                             db'[u].sessions[Len(db'[u].sessions)].refreshToken
                                = q.cookies.refreshToken
                       /\ (r.kind = "refresh" /\ q.cookies.refreshToken # r.cookie) =>
                             db'[u].sessions[r.idx].refreshToken
                                = q.cookies.refreshToken
                 /\ (q.pc = "done" /\ q.resp.status \in {429, 400, 401, 500}) =>
                       /\ q.cookies = NoCookies
                       /\ SessionLists(db') = SessionLists(db)
                       /\ \A e \in {"saved", "rotated", "revoked"} : ~InLog(q, e)]_vars

C21_Witness ==
    \E i \in Slots :
       /\ req[i].kind = "login"
       /\ req[i].pc = "done"
       /\ LastEntry(req[i]) = "save_threw"
       /\ req[i].resp.status = 500
       /\ req[i].cookies = NoCookies

\* C22: a request that met a storage failure (connecting, reading or saving)
\* ends with the structured 500 server_error envelope, never with an
\* exception the handler did not catch and never with a success.
C22_StorageFailureIs500 ==
    \A i \in Slots :
       (req[i].pc = "done"
          /\ LastEntry(req[i]) \in {"connect_threw", "db_threw", "save_threw"})
       => /\ req[i].resp.status = 500
          /\ req[i].resp.type = "server_error"
          /\ req[i].resp.code = "INTERNAL_SERVER_ERROR"

\* C23: no two stored sessions, of one user or of two, hold the same
\* refreshToken.
C23_RefreshTokensDistinct ==
    \A u1, u2 \in Emails :
       \A k1 \in 1..Len(db[u1].sessions), k2 \in 1..Len(db[u2].sessions) :
          (u1 # u2 \/ k1 # k2) =>
             db[u1].sessions[k1].refreshToken # db[u2].sessions[k2].refreshToken

\* C24: a refresh request takes the revoke-all branch only if the token it
\* presented is one that a login or a rotation stored as a session's
\* refreshToken, that is, a token signed for 7 days; a request presenting an
\* access token does not take it.
C24_RevokeOnlyOnReusedRefreshToken ==
    \A i \in Slots :
       (req[i].kind = "refresh" /\ InLog(req[i], "reuse_detected")) =>
          /\ req[i].cookie \in issued
          /\ req[i].cookie = signToken(req[i].userId, 7 * 24 * 60 * 60, req[i].cookie.iat)

\* C25: of two concurrent refresh requests presenting the same token, at most
\* one ends in 200, and once both are done (no other request having run) the
\* refresh token delivered with a 200 is held by a session of the user.
C25_OneConcurrentRefreshWins ==
    \A i, j \in Slots :
       ( /\ Overlap(i, j)
         /\ req[i].kind = "refresh" /\ req[j].kind = "refresh"
         /\ req[i].cookie = req[j].cookie
         /\ req[i].pc = "done" /\ req[j].pc = "done"
         /\ \A k \in Slots \ {i, j} : req[k].pc = "idle" )
       => /\ ~(req[i].resp.status = 200 /\ req[j].resp.status = 200)
          /\ req[i].resp.status = 200 =>
                \E k \in 1..Len(db[req[i].userId].sessions) :
                   db[req[i].userId].sessions[k].refreshToken
                      = req[i].cookies.refreshToken

\* C26: two concurrent register requests for one e-mail that both found it
\* unregistered, the store failing neither, leave one user document and both
\* end in a success response.
C26_ConcurrentRegisterBothSucceed ==
    \A i, j \in Slots :
       ( /\ Overlap(i, j)
         /\ req[i].kind = "register" /\ req[j].kind = "register"
         /\ Lower(req[i].email) = Lower(req[j].email)
         /\ InLog(req[i], "fresh") /\ InLog(req[j], "fresh")
         /\ req[i].pc = "done" /\ req[j].pc = "done"
         /\ ~InLog(req[i], "save_threw") /\ ~InLog(req[j], "save_threw") )
       => /\ db[Lower(req[i].email)].exists
          /\ req[i].resp.type = "success"
          /\ req[j].resp.type = "success"

\* Login requests the per-email limiter has let through in the current
\* window under the spelling e.
PermittedNow(e) ==
    LET st == limiter[<<"loginEmail", e>>]
    IN  IF st.win = now \div LoginEmailWindow THEN st.cnt ELSE 0

\* C27: within one 15-minute window the per-email limiter lets at most 5
\* login requests through to the password comparison of one stored user,
\* whatever the letter case of the e-mail submitted.
C27_EmailLimitPerAccount ==
    PermittedNow("a@x.com") + PermittedNow("A@x.com") <= 5

\* C28: every stored password is the hash of the plaintext the user signed
\* up with, not the plaintext, and comparePassword with that plaintext is
\* true, after any logins and refreshes.
C28_PasswordHashStable ==
    \A u \in Emails :
       db[u].exists =>
          /\ db[u].password # <<"longenough1">>
          /\ db[u].password[1] = "bcrypt"
          /\ Len(db[u].password) = 2
          /\ comparePassword("longenough1", db[u].password)

C28_Witness ==
    \E i, j \in Slots :
       /\ req[i].kind = "login" /\ req[i].resp.status = 200
       /\ req[j].kind = "refresh" /\ req[j].resp.status = 200
       /\ req[i].userId = req[j].userId
       /\ LastEntry(req[i]) = "saved"
       /\ LastEntry(req[j]) = "rotated"
       /\ comparePassword("longenough1", db[req[i].userId].password)

\* C29: when a connection attempt fails, every caller awaiting it gets the
\* error and the cache then holds neither a connection nor a pending promise;
\* the failure handling never clears the pending promise of a newer attempt.
C29_FailedAttemptClearsOnlyItself ==
    [][\A k \in 1..Len(conn.attempts) :
          (conn.attempts[k].state = "pending" /\ conn'.attempts[k].state = "rejected")
          => LET m == conn.attempts[k].impl
             IN  /\ \A c \in Callers :
                       (conn.callers[c].pc = "awaiting" /\ conn.callers[c].promise = k)
                       => conn'.callers[c].pc = "threw"
                 /\ conn.cache[m].promise \in {0, k}
                       => conn'.cache[m] = NoConnCache
                 /\ conn.cache[m].promise \notin {0, k}
                       => conn'.cache[m].promise = conn.cache[m].promise]_vars

\* C30: once disconnectDB has returned, and until connectDB starts another
\* attempt, the connectDB cache is empty and the status is false / false.
C30_DisconnectedStaysEmpty ==
    (conn.disc.pc = "returned" /\ connectDBAttempts = conn.disc.mark)
    => /\ conn.cache["connectDB"] = NoConnCache
       /\ getConnectionStatus(conn.cache["connectDB"])
             = [isConnected |-> FALSE, isConnecting |-> FALSE]

====
